---- MODULE Spec2Model ----
(***************************************************************************)
(* Image2TextArt, Electron GUI.  A model of the main process               *)
(* (electron-gui/main.js: the result cache, the process-image handler,     *)
(* the settings store) and of the renderer (electron-gui/src/js/app.js,    *)
(* settings.js).                                                           *)
(*                                                                         *)
(* Conventions.                                                            *)
(*  - A JavaScript number is a record [k, v]: k = "num" and v the value in *)
(*    hundredths (1.0 is v = 100, 0.55 is v = 55), or k = "NaN", or        *)
(*    k = "null" (what JSON makes of NaN).                                 *)
(*  - A JavaScript string is a TLA+ string; text typed into an input       *)
(*    element is a sequence of one-character strings, so that parseInt     *)
(*    can be modelled by what it does.                                     *)
(*  - Every handler and every callback runs to completion (one event-loop  *)
(*    turn), so each is one action.                                        *)
(***************************************************************************)
EXTENDS Integers, Sequences, FiniteSets, TLC

VARIABLES
  processCache,     \* main.js:9   Map, in insertion order: Seq of [key, value]
  store,            \* main.js:12  electron-store: lastSettings, darkMode, optimizeMemory
  activeProcesses,  \* main.js:64  Set of pids
  requests,         \* the process-image invocations whose child has not closed
  disk,             \* the file system: images by path, temporary output files, the bridge script
  now,              \* the last value Date.now() returned
  reply,            \* the latest settlement of a process-image promise
  app,              \* app.js: the AsciiArtGenerator of the window and what it shows
  helpers,          \* the outstanding suggest-optimal-settings and get-character-presets
  env               \* what the environment has done so far: calls, sweep cursor, departures

mainVars == <<processCache, store, activeProcesses, requests, disk, now, reply>>
vars == <<processCache, store, activeProcesses, requests, disk, now, reply, app, helpers, env>>

-----------------------------------------------------------------------------
(* Bounds of the model *)

\* request slots: how many process-image invocations can be outstanding
NumReq == 2
\* process-image invocations in the general specification
MaxCalls == 2
\* number of distinct widths the sweep of the cache specification requests
SweepLen == 12
\* departures from the plain sweep in the cache specification
MaxExtras == 2
\* times the application is closed and started again
MaxRestarts == 1
\* form edits of the user in the session specification
MaxEdits == 1
\* how many times all windows are closed
MaxCloses == 1
\* pieces of an engine output that is displayed
MaxAnsiLen == 3

-----------------------------------------------------------------------------
(* JavaScript numbers *)

JSNum(h) == [k |-> "num", v |-> h]
NaN == [k |-> "NaN", v |-> 0]
Null == [k |-> "null", v |-> 0]
\* an integer literal, a decimal literal given in hundredths
N(i) == JSNum(i * 100)
D(h) == JSNum(h)

IsNum(x) == x.k = "num"

\* Number.prototype.toString for a value with at most two decimals
RECURSIVE DecToString(_)
DecToString(h) ==
  IF h < 0 THEN "-" \o DecToString(-h)
  ELSE LET a == h \div 100
           f == h % 100
       IN IF f = 0 THEN ToString(a)
          ELSE IF f % 10 = 0 THEN ToString(a) \o "." \o ToString(f \div 10)
          ELSE ToString(a) \o "." \o (IF f < 10 THEN "0" ELSE "") \o ToString(f)

\* x.toString(): throws on null (Throws(x) says so), "NaN" for NaN
Throws(x) == x.k = "null"
NumToString(x) == IF x.k = "NaN" THEN "NaN" ELSE DecToString(x.v)

\* JSON.stringify of a number: NaN becomes null
NumToJSON(x) == IF x.k = "num" THEN DecToString(x.v) ELSE "null"
BoolToJSON(b) == IF b THEN "true" ELSE "false"
StrToJSON(s) == "\"" \o s \o "\""

-----------------------------------------------------------------------------
(* The settings object *)

\* the key order of this.settings (app.js:19-43); spreads keep it
FieldOrder ==
  << "outputWidth", "colorMode", "dithering", "edgeDetect", "preset",
     "enhanceContrast", "aspectRatioCorrection", "invert", "edgeThreshold",
     "blur", "sharpen", "brightness", "saturation", "contrast", "detailLevel",
     "gamma", "customChars", "fontFamily", "fontSize", "autoFit", "bgColor",
     "textColor" >>

NumFields ==
  { "outputWidth", "aspectRatioCorrection", "edgeThreshold", "blur", "sharpen",
    "brightness", "saturation", "contrast", "detailLevel", "gamma", "fontSize" }
BoolFields == { "dithering", "edgeDetect", "enhanceContrast", "invert", "autoFit" }

\* this.settings as the constructor sets it
DefaultSettings ==
  [ outputWidth |-> N(100), colorMode |-> "ansi", dithering |-> FALSE,
    edgeDetect |-> FALSE, preset |-> "classic", enhanceContrast |-> TRUE,
    aspectRatioCorrection |-> D(55), invert |-> FALSE, edgeThreshold |-> N(75),
    blur |-> N(0), sharpen |-> N(0), brightness |-> N(1), saturation |-> N(1),
    contrast |-> N(1), detailLevel |-> N(1), gamma |-> N(1), customChars |-> "",
    fontFamily |-> "monospace", fontSize |-> N(14), autoFit |-> TRUE,
    bgColor |-> "#000000", textColor |-> "#ffffff" ]

\* the schema default of lastSettings in the store
StoreDefaultLastSettings ==
  [ outputWidth |-> N(100), colorMode |-> "ansi", dithering |-> FALSE,
    edgeDetect |-> FALSE, preset |-> "classic", enhanceContrast |-> TRUE,
    aspectRatioCorrection |-> D(55), invert |-> FALSE, edgeThreshold |-> N(75),
    blur |-> N(0), sharpen |-> N(0), brightness |-> N(1), saturation |-> N(1),
    contrast |-> N(1), detailLevel |-> N(1), gamma |-> N(1) ]

\* what electron-store keeps of a settings object: its JSON, where NaN is null
Persisted(settings) ==
  [f \in DOMAIN settings |->
     IF f \in NumFields /\ settings[f].k = "NaN" THEN Null ELSE settings[f]]

\* JSON text of one field's value
FieldToJSON(settings, f) ==
  IF f \in NumFields THEN NumToJSON(settings[f])
  ELSE IF f \in BoolFields THEN BoolToJSON(settings[f])
  ELSE StrToJSON(settings[f])

\* the members "name":value of the fields from position i on, comma separated
RECURSIVE JSONMembers(_, _, _)
JSONMembers(settings, i, first) ==
  IF i > Len(FieldOrder) THEN ""
  ELSE LET f == FieldOrder[i]
       IN IF f \in DOMAIN settings
          THEN (IF first THEN "" ELSE ",") \o StrToJSON(f) \o ":"
                 \o FieldToJSON(settings, f) \o JSONMembers(settings, i + 1, FALSE)
          ELSE JSONMembers(settings, i + 1, first)

\* JSON.stringify(settings)
JSONStringify(settings) == "{" \o JSONMembers(settings, 1, TRUE) \o "}"

\* getCacheKey (main.js:462)
getCacheKey(imagePath, settings) == imagePath \o ":" \o JSONStringify(settings)

-----------------------------------------------------------------------------
(* The command line of the bridge script *)

BridgeScript == "python_bridge.py"

\* the name of the temporary output file made at time t
OutputFileName(t) == "output-" \o ToString(t) \o ".txt"

\* toString() is called on these fields while the argument array is built
StringifiedFields ==
  { "outputWidth", "edgeThreshold", "aspectRatioCorrection", "blur", "sharpen",
    "brightness", "saturation", "contrast", "detailLevel", "gamma" }

\* building the argument array throws (a TypeError on null.toString())
ArgsThrow(settings) == \E f \in StringifiedFields : Throws(settings[f])

\* the argument array before the optional parts
BaseArgs(imagePath, settings, outputFile) ==
  << BridgeScript, "generate", imagePath,
     "--output", outputFile,
     "--width", NumToString(settings.outputWidth),
     "--color", settings.colorMode,
     "--preset", settings.preset,
     "--edge-threshold", NumToString(settings.edgeThreshold),
     "--aspect-ratio", NumToString(settings.aspectRatioCorrection),
     "--blur", NumToString(settings.blur),
     "--sharpen", NumToString(settings.sharpen),
     "--brightness", NumToString(settings.brightness),
     "--saturation", NumToString(settings.saturation),
     "--contrast", NumToString(settings.contrast),
     "--detail-level", NumToString(settings.detailLevel),
     "--gamma", NumToString(settings.gamma) >>

\* the memory optimization arguments
MemoryArgs(optimizeMemory) ==
  IF optimizeMemory THEN << "--optimize-for", "memory", "--max-image-size", "2000" >>
  ELSE << >>

\* optional flags where --no-enhance follows enhanceContrast instead of its negation
FlagArgs_EnhanceFlag(settings) ==
  (IF settings.dithering THEN << "--dither" >> ELSE << >>)
  \o (IF settings.edgeDetect THEN << "--edges" >> ELSE << >>)
  \o (IF settings.enhanceContrast THEN << "--no-enhance" >> ELSE << >>)
  \o (IF settings.invert THEN << "--invert" >> ELSE << >>)

\* the optional boolean flags
FlagArgs(settings) ==
  (IF settings.dithering THEN << "--dither" >> ELSE << >>)
  \o (IF settings.edgeDetect THEN << "--edges" >> ELSE << >>)
  \o (IF ~settings.enhanceContrast THEN << "--no-enhance" >> ELSE << >>)
  \o (IF settings.invert THEN << "--invert" >> ELSE << >>)

\* args as process-image passes them to spawn
BuildArgs(imagePath, settings, outputFile, optimizeMemory) ==
  BaseArgs(imagePath, settings, outputFile)
  \o MemoryArgs(optimizeMemory) \o FlagArgs(settings)

\* the value that follows option opt on the command line ("" when absent)
ArgValue(args, opt) ==
  IF \E i \in 1..(Len(args) - 1) : args[i] = opt
  THEN args[(CHOOSE i \in 1..(Len(args) - 1) : args[i] = opt) + 1]
  ELSE ""

HasArg(args, opt) == \E i \in 1..Len(args) : args[i] = opt

-----------------------------------------------------------------------------
(* The Python engine behind the bridge script: not part of the GUI sources. *)
(* It is an environment: it reads the image, and either writes the output   *)
(* file and exits with code 0, or reports one of the four error kinds on    *)
(* stderr and exits with a non-zero code.                                   *)

\* what the engine is configured with: the arguments after the output file
EngineConfig(args) == SubSeq(args, 6, Len(args))

RECURSIVE Join(_)
Join(seq) == IF seq = << >> THEN "" ELSE " " \o Head(seq) \o Join(Tail(seq))

\* the text the pipeline produces for image bytes and a configuration
Render(bytes, cfg) == "art[" \o bytes \o Join(cfg) \o "]"

\* image contents: two different valid images and an undecodable file
ValidBytes == { "img1", "img2" }
CorruptBytes == "corrupt"

\* --width as the engine accepts it: a positive integer
WidthAccepted(w) == \E i \in 1..200 : w = ToString(i)

\* the presets the engine knows
EnginePresets == { "classic", "photo", "lineart", "detailed", "ultra", "minimal" }

\* the ways one run can end: "ok", or an error kind
EngineOutcomes(bytes, args) ==
  IF bytes = CorruptBytes THEN { "ImageDecodeError" }
  ELSE IF ~WidthAccepted(ArgValue(args, "--width")) THEN { "InvalidConfigError" }
  ELSE IF ArgValue(args, "--preset") \notin EnginePresets THEN { "UnknownPresetError" }
  ELSE { "ok", "ProcessingError" }

-----------------------------------------------------------------------------
(* The result cache: a Map in insertion order *)

\* the size limit of the cache
CacheLimit == 10

CacheKeys(cache) == { cache[i].key : i \in 1..Len(cache) }
CacheHas(cache, key) == key \in CacheKeys(cache)
CacheIndex(cache, key) == CHOOSE i \in 1..Len(cache) : cache[i].key = key
\* a lookup that returns the oldest entry's value
CacheGet_Oldest(cache, key) == cache[1].value
CacheGet(cache, key) == cache[CacheIndex(cache, key)].value

\* Map.prototype.set: a present key keeps its place, a new key goes last
CacheSet(cache, key, value) ==
  IF CacheHas(cache, key)
  THEN [cache EXCEPT ![CacheIndex(cache, key)].value = value]
  ELSE Append(cache, [key |-> key, value |-> value])

\* a size limit that keeps only the newest entry
LimitCache_KeepNewest(cache) ==
  IF Len(cache) > CacheLimit THEN << cache[Len(cache)] >> ELSE cache

\* a size limit that removes the newest entries instead of the oldest
LimitCache_DropNewest(cache) ==
  IF Len(cache) > CacheLimit THEN SubSeq(cache, 1, CacheLimit) ELSE cache

\* a size limit that is off by one
LimitCache_OffByOne(cache) ==
  IF Len(cache) > CacheLimit + 1
  THEN SubSeq(cache, Len(cache) - CacheLimit, Len(cache))
  ELSE cache

\* "Limit cache size": delete keys[0 .. keys.length - 10 - 1]
LimitCache(cache) ==
  IF Len(cache) > CacheLimit
  THEN SubSeq(cache, Len(cache) - CacheLimit + 1, Len(cache))
  ELSE cache

-----------------------------------------------------------------------------
(* process-image *)

Req == 1..NumReq
Pids == 1..NumReq
\* pythonProcess.pid when the process could not be started: undefined
UndefinedPid == 0

\* a slot with no invocation in it
IdleRequest ==
  [ status |-> "idle",       \* the promise: idle, pending, rejected (close still to come)
    threw |-> FALSE,         \* the executor threw: the promise stays pending
    imagePath |-> "", settings |-> DefaultSettings, cacheKey |-> "",
    outputFile |-> "", args |-> << >>,
    pid |-> UndefinedPid,
    proc |-> "none",         \* the child: none, running, failed, exited
    code |-> 0, stderrData |-> "", errorEmitted |-> FALSE ]

\* before any invocation has settled
NoReply ==
  [ status |-> "none", value |-> "", hit |-> FALSE, stored |-> FALSE, cacheKey |-> "" ]

\* what the invoker of process-image receives when the promise settles:
\* resolved with a string or rejected with a message
Settled(status, value, cacheKey) ==
  [ status |-> status, value |-> value, hit |-> FALSE, stored |-> FALSE,
    cacheKey |-> cacheKey ]

Free(q) == q.status = "idle"

LivePids == { requests[r].pid : r \in { x \in Req : requests[x].proc = "running" } }

\* a cache lookup that moves the entry it returns to the newest place
CacheHit_Refreshes(cacheKey) ==
  /\ reply' = [Settled("resolved", CacheGet(processCache, cacheKey), cacheKey)
              EXCEPT !.hit = TRUE]
  /\ processCache' =
       Append(SelectSeq(processCache, LAMBDA e : e.key # cacheKey),
              processCache[CacheIndex(processCache, cacheKey)])
  /\ UNCHANGED <<store, activeProcesses, requests, disk, now>>

\* "Check cache first": the stored string is returned and nothing else happens
CacheHit(cacheKey) ==
  /\ reply' = [Settled("resolved", CacheGet(processCache, cacheKey), cacheKey)
              EXCEPT !.hit = TRUE]
  /\ UNCHANGED <<processCache, store, activeProcesses, requests, disk, now>>

\* ipcMain.handle('process-image'): the executor, up to the return or the spawn.
\* stamps are the values Date.now() may return, spawnOks whether spawn may
\* start the process or fail to, pids the pids the operating system may give.
ProcessImage(r, imagePath, settings, stamps, spawnOks, pids) ==
  /\ Free(requests[r])
  /\ LET cacheKey == getCacheKey(imagePath, settings)
         q0 == [IdleRequest EXCEPT !.status = "pending", !.cacheKey = cacheKey,
                                   !.imagePath = imagePath, !.settings = settings]
     IN IF CacheHas(processCache, cacheKey)
        THEN CacheHit(cacheKey)
        ELSE IF ~disk.bridge
        THEN /\ reply' = Settled("rejected", "Bridge script not found: " \o BridgeScript,
                                 cacheKey)
             /\ UNCHANGED <<processCache, store, activeProcesses, requests, disk, now>>
        ELSE IF imagePath \notin DOMAIN disk.images
        THEN /\ reply' = Settled("rejected", "Image file not found: " \o imagePath,
                                 cacheKey)
             /\ UNCHANGED <<processCache, store, activeProcesses, requests, disk, now>>
        ELSE \E t \in stamps :
             /\ t >= now
             /\ now' = t
             /\ disk' = [disk EXCEPT !.tmpDir = TRUE]
             /\ UNCHANGED <<processCache, reply>>
             /\ IF ArgsThrow(settings)
                THEN /\ requests' = [requests EXCEPT ![r] =
                           [q0 EXCEPT !.threw = TRUE, !.outputFile = OutputFileName(t)]]
                     /\ UNCHANGED <<store, activeProcesses>>
                ELSE /\ store' = [store EXCEPT !.lastSettings = Persisted(settings)]
                     /\ \E spawnOk \in spawnOks :
                        \E pid \in (IF spawnOk THEN pids \ LivePids ELSE { UndefinedPid }) :
                          /\ activeProcesses' = activeProcesses \cup { pid }
                          /\ requests' = [requests EXCEPT ![r] =
                               [q0 EXCEPT !.outputFile = OutputFileName(t),
                                          !.args = BuildArgs(imagePath, settings,
                                                     OutputFileName(t), store.optimizeMemory),
                                          !.pid = pid,
                                          !.proc = IF spawnOk THEN "running" ELSE "failed"]]

\* the Python process runs and exits (the environment)
PythonExit(r, outcome) ==
  LET q == requests[r] IN
  /\ q.proc = "running"
  /\ q.imagePath \in DOMAIN disk.images
  /\ outcome \in EngineOutcomes(disk.images[q.imagePath], q.args)
  /\ IF outcome = "ok"
     THEN /\ disk' = [disk EXCEPT !.tmp = [f \in (DOMAIN disk.tmp) \cup { q.outputFile } |->
                        IF f = q.outputFile
                        THEN Render(disk.images[q.imagePath], EngineConfig(q.args))
                        ELSE disk.tmp[f]]]
          /\ requests' = [requests EXCEPT ![r] = [q EXCEPT !.proc = "exited", !.code = 0]]
     ELSE /\ requests' = [requests EXCEPT ![r] =
                [q EXCEPT !.proc = "exited", !.code = 1, !.stderrData = outcome]]
          /\ UNCHANGED disk
  /\ UNCHANGED <<processCache, store, activeProcesses, now, reply>>

\* resolve and reject settle a promise once; later calls do nothing
Settle(q, status, value, stored) ==
  IF q.status = "pending"
  THEN reply' = [Settled(status, value, q.cacheKey) EXCEPT !.stored = stored]
  ELSE UNCHANGED reply

\* a close handler that caches and resolves whatever the exit code is
OnClose_IgnoreCode(r, readable) ==
  LET q == requests[r] IN
  /\ q.proc = "exited" \/ (q.proc = "failed" /\ q.errorEmitted)
  /\ activeProcesses' = activeProcesses \ { q.pid }
  /\ processCache' = LimitCache(CacheSet(processCache, q.cacheKey, "partial"))
  /\ Settle(q, "resolved", "partial", TRUE)
  /\ requests' = [requests EXCEPT ![r] = IdleRequest]
  /\ UNCHANGED <<store, disk, now>>

\* pythonProcess.on('close'); afterwards nothing refers to the invocation.
\* readable: whether readFileSync can read the output file if it exists.
OnClose(r, readable) ==
  LET q == requests[r] IN
  /\ q.proc = "exited" \/ (q.proc = "failed" /\ q.errorEmitted)
  /\ activeProcesses' = activeProcesses \ { q.pid }
  /\ IF q.code # 0
     THEN /\ Settle(q, "rejected", "Python error: " \o
                     (IF q.stderrData # "" THEN q.stderrData ELSE "Unknown error"), FALSE)
          /\ UNCHANGED <<processCache, disk>>
     ELSE IF readable /\ q.outputFile \in DOMAIN disk.tmp
     THEN LET result == disk.tmp[q.outputFile] IN
          /\ processCache' = LimitCache(CacheSet(processCache, q.cacheKey, result))
          /\ disk' = [disk EXCEPT !.tmp = [f \in (DOMAIN disk.tmp) \ { q.outputFile } |->
                                             disk.tmp[f]]]
          /\ Settle(q, "resolved", result, TRUE)
     ELSE /\ Settle(q, "rejected", "Failed to read output file: ENOENT", FALSE)
          /\ UNCHANGED <<processCache, disk>>
  /\ requests' = [requests EXCEPT ![r] = IdleRequest]
  /\ UNCHANGED <<store, now>>

\* pythonProcess.on('error'): the process could not be started.  Node then
\* emits close with a negative exit code.
OnError(r) ==
  LET q == requests[r] IN
  /\ q.proc = "failed" /\ ~q.errorEmitted
  /\ activeProcesses' = activeProcesses \ { q.pid }
  /\ Settle(q, "rejected", "Failed to start Python process: spawn ENOENT", FALSE)
  /\ requests' = [requests EXCEPT ![r] =
        [q EXCEPT !.status = "rejected", !.errorEmitted = TRUE, !.code = -2]]
  /\ UNCHANGED <<processCache, store, disk, now>>

\* ipcMain.handle('clear-cache')
ClearCache ==
  /\ processCache' = << >>
  /\ UNCHANGED <<store, activeProcesses, requests, disk, now, reply>>

\* ipcMain.handle('toggle-memory-optimization')
ToggleMemoryOptimization(isOptimized) ==
  /\ store' = [store EXCEPT !.optimizeMemory = isOptimized]
  /\ UNCHANGED <<processCache, activeProcesses, requests, disk, now, reply>>

\* the user's image file is replaced by other bytes (the environment)
ReplaceImage(path, bytes) ==
  /\ path \in DOMAIN disk.images
  /\ disk.images[path] # bytes
  /\ disk' = [disk EXCEPT !.images[path] = bytes]
  /\ UNCHANGED <<processCache, store, activeProcesses, requests, now, reply>>

\* the state after main.js has loaded, over a file system with the images in it
MainInit(images, bridge) ==
  /\ processCache = << >>
  /\ store = [ lastSettings |-> StoreDefaultLastSettings, darkMode |-> TRUE,
               optimizeMemory |-> TRUE ]
  /\ activeProcesses = { }
  /\ requests = [r \in Req |-> IdleRequest]
  /\ disk = [ images |-> images, tmp |-> << >>, tmpDir |-> FALSE, bridge |-> bridge ]
  /\ now = 0
  /\ reply = NoReply

-----------------------------------------------------------------------------
(* The bridge calls that answer a question: suggest-optimal-settings and    *)
(* get-character-presets.  Each spawns the bridge script and resolves from  *)
(* the child's events; one invocation of each is followed at a time.  A     *)
(* text is the sequence of its lines; a parsed object or array is the       *)
(* sequence of its <<key, value>> members.                                  *)

\* no invocation: no promise, no child, nothing received yet
IdleHelper ==
  [ status |-> "idle",      \* the promise: idle, pending, settled
    proc |-> "none",        \* the child: none, running, failed, exited
    code |-> 0, stdoutData |-> << >>, stderrData |-> << >>, errorEmitted |-> FALSE,
    reply |-> [ status |-> "none" ] ]

HelpersInit == [h \in { "suggest", "presets" } |-> IdleHelper]

\* what the bridge script prints for suggest_settings and for get_presets
SuggestJSON == "{\"outputWidth\": 80, \"preset\": \"blocks\"}"
PresetsJSON == "{\"standard\": \"@#*. \", \"blocks\": \"#= \"}"

\* JSON.parse(stdoutData.trim()): the members of a text that is JSON
JSONParse(text) ==
  IF text = << SuggestJSON >>
  THEN [ ok |-> TRUE, value |-> << <<"outputWidth", "80">>, <<"preset", "blocks">> >> ]
  ELSE IF text = << PresetsJSON >>
  THEN [ ok |-> TRUE, value |-> << <<"standard", "@#*. ">>, <<"blocks", "#= ">> >> ]
  ELSE IF text = << "{}" >>
  THEN [ ok |-> TRUE, value |-> << >> ]
  ELSE [ ok |-> FALSE, value |-> << >> ]

\* the setting a line of output gives under the patterns of the fallback:
\* /Width: (\d+)/, /Color mode: (\w+)/, /Character preset: (\w+)/,
\* /Dithering: (enabled|disabled)/, /Edge detection: (enabled|disabled)/
LineSetting(line) ==
  IF line = "Width: 80" THEN <<"outputWidth", "80">>
  ELSE IF line = "Width: 60" THEN <<"outputWidth", "60">>
  ELSE IF line = "Color mode: ansi" THEN <<"colorMode", "ansi">>
  ELSE IF line = "Character preset: blocks" THEN <<"preset", "blocks">>
  ELSE IF line = "Dithering: enabled" THEN <<"dithering", "true">>
  ELSE IF line = "Edge detection: disabled" THEN <<"edgeDetect", "false">>
  ELSE << >>

FallbackKeys == <<"outputWidth", "colorMode", "preset", "dithering", "edgeDetect">>

\* output.match(pattern of key): the lines of the output that match
MatchesOf(key, output) ==
  SelectSeq(output, LAMBDA line : LineSetting(line) # << >> /\ LineSetting(line)[1] = key)

\* the settings object the fallback builds: the first match of each pattern
RECURSIVE RegexSettings(_, _)
RegexSettings(keys, output) ==
  IF keys = << >> THEN << >>
  ELSE LET m == MatchesOf(Head(keys), output) IN
       (IF m = << >> THEN << >> ELSE << LineSetting(m[1]) >>)
       \o RegexSettings(Tail(keys), output)

\* a promise settles once: resolve() on a settled promise does nothing
HelperResolve(h, value) ==
  IF h.status = "pending" THEN [h EXCEPT !.status = "settled", !.reply = value] ELSE h

\* the child that a spawn creates, or fails to create
HelperSpawn(spawnOk) ==
  [ IdleHelper EXCEPT !.status = "pending",
                      !.proc = IF spawnOk THEN "running" ELSE "failed",
                      !.code = IF spawnOk THEN 0 ELSE -2 ]

\* ipcMain.handle('suggest-optimal-settings')
SuggestOptimalSettings(imagePath, spawnOk) ==
  /\ helpers["suggest"].status # "pending" /\ helpers["suggest"].proc = "none"
  /\ helpers' = [helpers EXCEPT !["suggest"] =
       IF imagePath \notin DOMAIN disk.images
       THEN [ IdleHelper EXCEPT !.status = "settled",
                !.reply = [ status |-> "resolved", success |-> FALSE,
                            error |-> << "File not found" >> ] ]
       ELSE HelperSpawn(spawnOk)]
  /\ UNCHANGED mainVars

\* the bridge script of either call prints and exits
HelperExit(name, code, out, err) ==
  /\ helpers[name].proc = "running"
  /\ helpers' = [helpers EXCEPT ![name].proc = "exited", ![name].code = code,
                                ![name].stdoutData = out, ![name].stderrData = err]
  /\ UNCHANGED mainVars

\* suggest-optimal-settings: pythonProcess.on('close'), without the frame
SuggestCloseReply(h) ==
  IF h.code # 0
  THEN [ status |-> "resolved", success |-> FALSE,
         error |-> IF h.stderrData # << >> THEN h.stderrData ELSE << "Unknown error" >> ]
  ELSE IF JSONParse(h.stdoutData).ok
  THEN [ status |-> "resolved", success |-> TRUE, settings |-> JSONParse(h.stdoutData).value ]
  ELSE LET settings == RegexSettings(FallbackKeys, h.stdoutData \o h.stderrData) IN
       IF Len(settings) > 0
       THEN [ status |-> "resolved", success |-> TRUE, settings |-> settings ]
       ELSE [ status |-> "resolved", success |-> FALSE,
              error |-> << "Could not parse settings" >> ]

\* the events of a child: close follows exit, or the error event of a failed spawn
HelperClosing(h) == h.proc = "exited" \/ (h.proc = "failed" /\ h.errorEmitted)

SuggestClose_Rejects ==
  /\ HelperClosing(helpers["suggest"])
  /\ helpers' = [helpers EXCEPT !["suggest"] =
       [ (IF @.code # 0
          THEN HelperResolve(@, [ status |-> "rejected", error |-> @.stderrData ])
          ELSE HelperResolve(@, SuggestCloseReply(@))) EXCEPT !.proc = "none" ]]
  /\ UNCHANGED <<mainVars, app, env>>

SuggestClose ==
  /\ HelperClosing(helpers["suggest"])
  /\ helpers' = [helpers EXCEPT !["suggest"] =
       [ HelperResolve(@, SuggestCloseReply(@)) EXCEPT !.proc = "none" ]]
  /\ UNCHANGED <<mainVars, app, env>>

\* suggest-optimal-settings: pythonProcess.on('error')
SuggestError ==
  /\ helpers["suggest"].proc = "failed" /\ ~helpers["suggest"].errorEmitted
  /\ helpers' = [helpers EXCEPT !["suggest"] =
       [ HelperResolve(@, [ status |-> "resolved", success |-> FALSE,
                            error |-> << "spawn python ENOENT" >> ])
         EXCEPT !.errorEmitted = TRUE ]]
  /\ UNCHANGED <<mainVars, app, env>>

\* ipcMain.handle('get-character-presets')
GetCharacterPresets(spawnOk) ==
  /\ helpers["presets"].status # "pending" /\ helpers["presets"].proc = "none"
  /\ helpers' = [helpers EXCEPT !["presets"] =
       IF ~disk.bridge
       THEN [ IdleHelper EXCEPT !.status = "settled",
                !.reply = [ status |-> "resolved", value |-> << >> ] ]
       ELSE HelperSpawn(spawnOk)]
  /\ UNCHANGED mainVars

\* get-character-presets: pythonProcess.on('close'), without the frame
PresetsCloseReply_Rejects(h) ==
  IF h.code # 0
  THEN [ status |-> "resolved", value |-> << >> ]
  ELSE IF JSONParse(h.stdoutData).ok
  THEN [ status |-> "resolved", value |-> JSONParse(h.stdoutData).value ]
  ELSE [ status |-> "rejected", value |-> << >> ]

PresetsCloseReply(h) ==
  IF h.code # 0
  THEN [ status |-> "resolved", value |-> << >> ]
  ELSE IF JSONParse(h.stdoutData).ok
  THEN [ status |-> "resolved", value |-> JSONParse(h.stdoutData).value ]
  ELSE [ status |-> "resolved", value |-> << >> ]

PresetsClose ==
  /\ HelperClosing(helpers["presets"])
  /\ helpers' = [helpers EXCEPT !["presets"] =
       [ HelperResolve(@, PresetsCloseReply(@)) EXCEPT !.proc = "none" ]]
  /\ UNCHANGED <<mainVars, app, env>>

\* get-character-presets: pythonProcess.on('error')
PresetsError ==
  /\ helpers["presets"].proc = "failed" /\ ~helpers["presets"].errorEmitted
  /\ helpers' = [helpers EXCEPT !["presets"] =
       [ HelperResolve(@, [ status |-> "resolved", value |-> << >> ])
         EXCEPT !.errorEmitted = TRUE ]]
  /\ UNCHANGED <<mainVars, app, env>>

-----------------------------------------------------------------------------
(* The renderer: the AsciiArtGenerator object of app.js *)

\* {...a, ...b}
MergeSettings(a, b) ==
  [f \in (DOMAIN a) \cup (DOMAIN b) |-> IF f \in DOMAIN b THEN b[f] ELSE a[f]]

\* no ipcRenderer.invoke of generateAsciiArt is outstanding
NoCall ==
  [ stage |-> "none", imagePath |-> "",
    settings |-> DefaultSettings,             \* the argument of the invoke
    processingSettings |-> DefaultSettings ]  \* const processingSettings

NoStatus == [ message |-> "", type |-> "" ]

\* the object after the constructor and init(): the stored settings are
\* merged over the constructor's, and the form shows them
AppInit ==
  [ settings |-> MergeSettings(DefaultSettings, StoreDefaultLastSettings),
    selectedImagePath |-> "",      \* null
    asciiOutput |-> << >>,         \* null; the pieces of the text otherwise
    isProcessing |-> FALSE,
    loading |-> FALSE,             \* the loading overlay is displayed
    status |-> NoStatus,           \* the status-message element
    timers |-> 0,                  \* pending auto-clear timers of showStatus
    console |-> "",                \* the error last written by console.error
    widthInput |-> << "1", "0", "0" >>,   \* the value of the width-input element
    lightTheme |-> FALSE,          \* document.body has the class light-theme
    lightIcon |-> "none",          \* style.display of light-icon
    darkIcon |-> "block",          \* style.display of dark-icon
    analyzing |-> 0,               \* pending timers of analyzeImage
    display |-> [ branch |-> "none", content |-> << >> ],   \* output-area
    zoomLevel |-> 100,             \* this.zoomLevel
    widthMin |-> << >>,            \* the min attribute of width-input, none here
    widthMax |-> << >>,            \* the max attribute of width-input, none here
    call |-> NoCall ]              \* the invoke generateAsciiArt is waiting for

-----------------------------------------------------------------------------
(* The general specification of the main process: any interleaving of       *)
(* process-image invocations, child process events, clear-cache,            *)
(* toggle-memory-optimization and replacements of the image file.           *)

Paths == { "a.png" }

\* the settings objects process-image is invoked with
SettingsPool ==
  { DefaultSettings }

EnvInit ==
  env = [ calls |-> 0, cursor |-> 0, extras |-> 0, restarts |-> 0, edits |-> 0, closed |-> 0,
          clearedAt |-> -1 ]

\* the file systems the application starts over: with the image and the
\* bridge script, without the image, without the bridge script
Init ==
  /\ \/ MainInit([p \in { "a.png" } |-> "img1"], TRUE)
     \/ MainInit(<< >>, TRUE)
     \/ MainInit([p \in { "a.png" } |-> "img1"], FALSE)
  /\ app = AppInit
  /\ helpers = HelpersInit
  /\ EnvInit

\* children whose close event is still to come
Unclosed == { x \in Req : requests[x].proc \in { "running", "failed", "exited" } }

\* Date.now(): a later millisecond, or the same millisecond as the latest
\* invocation when that one's child is still around
Stamps ==
  { now + 1 } \cup
  { t \in { now } : \E x \in Unclosed : requests[x].outputFile = OutputFileName(t) }

\* the pid of a new child: one that an exited child whose close event is
\* pending had, or the first pid no child has
PidChoices ==
  { requests[y].pid : y \in { z \in Unclosed : requests[z].proc = "exited" } }
  \cup { p \in Pids : /\ \A y \in Unclosed : requests[y].pid # p
                       /\ \A p2 \in 1..(p - 1) : \E z \in Unclosed : requests[z].pid = p2 }

\* the slot a new invocation is recorded in: the first free one
FreeSlot(r) == Free(requests[r]) /\ \A x \in 1..(r - 1) : ~Free(requests[x])

Invoke ==
  \E r \in Req, imagePath \in Paths, settings \in SettingsPool :
    /\ FreeSlot(r)
    /\ env.calls < MaxCalls
    /\ ProcessImage(r, imagePath, settings, Stamps, BOOLEAN, PidChoices)
    /\ env' = [env EXCEPT !.calls = env.calls + 1]
    /\ UNCHANGED <<app, helpers>>

Exit ==
  \E r \in Req, outcome \in { "ok", "ImageDecodeError", "InvalidConfigError",
                              "UnknownPresetError", "ProcessingError" } :
    PythonExit(r, outcome) /\ UNCHANGED <<app, helpers, env>>

Close == \E r \in Req, readable \in BOOLEAN : OnClose(r, readable) /\ UNCHANGED <<app, helpers, env>>

Error == \E r \in Req : OnError(r) /\ UNCHANGED <<app, helpers, env>>

Clear == ClearCache /\ UNCHANGED <<app, helpers, env>>

\* the user switches memory optimization off
Toggle == ToggleMemoryOptimization(FALSE) /\ store.optimizeMemory /\ UNCHANGED <<app, helpers, env>>

\* the versions of the image file, in the order they are written
Versions == << "img1", "img2" >>

Replace ==
  \E i \in 1..(Len(Versions) - 1) :
    /\ "a.png" \in DOMAIN disk.images
    /\ disk.images["a.png"] = Versions[i]
    /\ ReplaceImage("a.png", Versions[i + 1])
    /\ UNCHANGED <<app, helpers, env>>

Next == Invoke \/ Exit \/ Close \/ Error \/ Clear \/ Toggle \/ Replace

Spec == Init /\ [][Next]_vars

-----------------------------------------------------------------------------
(* The cache specification: one image, requests that sweep the output width *)
(* upwards so that the cache fills past its limit.  The environment departs *)
(* from the plain sweep (one request after the other, each with the next    *)
(* width, each succeeding) a bounded number of times: by a request made     *)
(* while another is in flight, by a request for the first or for the latest *)
(* width again, by a failing run, by a clear-cache call.                    *)

SweepSettings(w) == [DefaultSettings EXCEPT !.outputWidth = N(w)]
SweepKey(w) == getCacheKey("a.png", SweepSettings(w))

CacheInit ==
  /\ MainInit([p \in { "a.png" } |-> "img1"], TRUE)
  /\ app = AppInit
  /\ helpers = HelpersInit
  /\ EnvInit

InFlight == { x \in Req : requests[x].status # "idle" }

\* what a request for width w costs of the environment's departures
SweepCost(w) ==
  (IF w = env.cursor + 1 THEN 0 ELSE 1) + (IF InFlight = { } THEN 0 ELSE 1)

SweepInvoke ==
  \E r \in Req, w \in { 1, env.cursor, env.cursor + 1 } :
    /\ FreeSlot(r)
    /\ 1 <= w /\ w <= SweepLen
    /\ env.extras + SweepCost(w) <= MaxExtras
    /\ ProcessImage(r, "a.png", SweepSettings(w), { now + 1 }, { TRUE }, { r })
    /\ env' = [env EXCEPT !.calls = env.calls + 1,
                          !.cursor = IF w > env.cursor THEN w ELSE env.cursor,
                          !.extras = env.extras + SweepCost(w)]
    /\ UNCHANGED <<app, helpers>>

SweepExit == \E r \in Req : PythonExit(r, "ok") /\ UNCHANGED <<app, helpers, env>>

SweepFail ==
  \E r \in Req :
    /\ env.extras < MaxExtras
    /\ PythonExit(r, "ProcessingError")
    /\ env' = [env EXCEPT !.extras = env.extras + 1]
    /\ UNCHANGED <<app, helpers>>

SweepClear ==
  /\ env.extras < MaxExtras
  /\ ClearCache
  /\ env' = [env EXCEPT !.extras = env.extras + 1]
  /\ UNCHANGED <<app, helpers>>

SweepClose == \E r \in Req : OnClose(r, TRUE) /\ UNCHANGED <<app, helpers, env>>

CacheNext == SweepInvoke \/ SweepExit \/ SweepFail \/ SweepClose \/ SweepClear

SpecCache == CacheInit /\ [][CacheNext]_vars

-----------------------------------------------------------------------------
(* The main process with its two advisory calls.  An advisory call counts   *)
(* against the same budget of invocations as a process-image call.          *)

\* what a bridge child ends with: exit code, standard output, standard error
HelperOutcomes ==
  { <<0, << SuggestJSON >>, << >> >>,
    <<0, << PresetsJSON >>, << >> >>,
    <<0, << "Width: 80", "Dithering: enabled" >>, << "Width: 60", "Color mode: ansi" >> >>,
    <<0, << "Traceback" >>, << >> >>,
    <<1, << >>, << "Error: cannot identify image file" >> >>,
    <<1, << SuggestJSON >>, << >> >> }

Suggest ==
  \E imagePath \in Paths \cup { "gone.png" }, spawnOk \in BOOLEAN :
    /\ env.calls < MaxCalls
    /\ SuggestOptimalSettings(imagePath, spawnOk)
    /\ env' = [env EXCEPT !.calls = env.calls + 1]
    /\ UNCHANGED app

Presets ==
  \E spawnOk \in BOOLEAN :
    /\ env.calls < MaxCalls
    /\ GetCharacterPresets(spawnOk)
    /\ env' = [env EXCEPT !.calls = env.calls + 1]
    /\ UNCHANGED app

BridgeExit ==
  \E name \in { "suggest", "presets" }, o \in HelperOutcomes :
    HelperExit(name, o[1], o[2], o[3]) /\ UNCHANGED <<app, env>>

HelperNext ==
  \/ Invoke \/ Exit \/ Close \/ Error \/ Clear \/ Toggle \/ Replace
  \/ Suggest \/ Presets \/ BridgeExit
  \/ SuggestClose \/ SuggestError \/ PresetsClose \/ PresetsError

SpecHelpers == Init /\ [][HelperNext]_vars

\* app.on('window-all-closed'): process.kill for each member of
\* activeProcesses; the child that has the pid ends by the signal (exit code
\* null, here -15); process.kill(undefined) and the kill of a pid that no
\* process has throw and are ignored.  On macOS the application goes on.
WindowAllClosed ==
  /\ env.closed < MaxCloses
  /\ requests' = [r \in Req |->
       IF requests[r].proc = "running" /\ requests[r].pid \in activeProcesses
       THEN [requests[r] EXCEPT !.proc = "exited", !.code = -15]
       ELSE requests[r]]
  /\ env' = [env EXCEPT !.closed = env.closed + 1]
  /\ UNCHANGED <<processCache, store, activeProcesses, disk, now, reply, app, helpers>>

SpecQuit == Init /\ [][HelperNext \/ WindowAllClosed]_vars

-----------------------------------------------------------------------------
(* The main process, with the number of invocations made so far noted at    *)
(* each clear-cache call.                                                   *)

ClearNoted ==
  /\ ClearCache
  /\ env' = [env EXCEPT !.clearedAt = env.calls]
  /\ UNCHANGED <<app, helpers>>

SpecClear == Init /\ [][Invoke \/ Exit \/ Close \/ Error \/ ClearNoted]_vars

-----------------------------------------------------------------------------
(* Claims about the result cache *)

\* C1: whenever a handler or callback has finished, the cache holds at most
\* CacheLimit (10) entries.
C1_CacheBounded == Len(processCache) <= CacheLimit

\* the eleventh key has just been stored into a full cache
C1_Witness ==
  /\ reply.stored /\ reply.cacheKey = SweepKey(CacheLimit + 1)
  /\ Len(processCache) = CacheLimit

SweepKeys(lo, hi) == [i \in 1..(hi - lo + 1) |-> SweepKey(lo + i - 1)]
KeySeq(cache) == [i \in 1..Len(cache) |-> cache[i].key]

\* after the plain sweep has stored CacheLimit + 1 keys, the first is gone and
\* the others are there, in insertion order
C2_Eleven ==
  (env.extras = 0 /\ reply.stored /\ reply.cacheKey = SweepKey(CacheLimit + 1))
    => KeySeq(processCache) = SweepKeys(2, CacheLimit + 1)

\* how one step may change the cache: not at all, by clearing it, by giving a
\* present key a new value in place, by appending a new key, and when the
\* cache was full by appending a new key and removing exactly the first entry
C2_Step ==
  \/ processCache' = processCache
  \/ processCache' = << >>
  \/ /\ KeySeq(processCache') = KeySeq(processCache)
  \/ /\ Len(processCache) < CacheLimit
     /\ Len(processCache') = Len(processCache) + 1
     /\ SubSeq(processCache', 1, Len(processCache)) = processCache
     /\ processCache'[Len(processCache')].key \notin CacheKeys(processCache)
  \/ /\ Len(processCache) = CacheLimit
     /\ Len(processCache') = CacheLimit
     /\ SubSeq(processCache', 1, CacheLimit - 1) = Tail(processCache)
     /\ processCache'[CacheLimit].key \notin CacheKeys(processCache)

\* C2: eviction is oldest-first: eleven conversions with distinct keys from an
\* empty cache leave keys 2..11, and an insertion into a full cache removes
\* exactly the entry inserted first.
C2_OldestFirst == [](C2_Eleven) /\ [][C2_Step]_vars

\* the first key has been evicted, the ten later ones are present
C2_Witness ==
  /\ env.extras = 0
  /\ KeySeq(processCache) = SweepKeys(2, CacheLimit + 1)
  /\ ~CacheHas(processCache, SweepKey(1))

\* the slots whose invocation started in this step
Started == { r \in Req : requests[r].status = "idle" /\ requests'[r].status = "pending" }

\* C3: an invocation whose key is in the cache resolves with the stored
\* string; it spawns no process, makes no file and changes nothing else; an
\* invocation that spawns has a key that is not in the cache.
C3_Step ==
  (env'.calls # env.calls) =>
     /\ \A r \in Started : ~CacheHas(processCache, requests'[r].cacheKey)
     /\ (Started = { } /\ CacheHas(processCache, reply'.cacheKey)) =>
          /\ reply'.status = "resolved" /\ reply'.hit
          /\ reply'.value = processCache[CacheIndex(processCache, reply'.cacheKey)].value
          /\ UNCHANGED <<processCache, store, activeProcesses, requests, disk, now>>

C3_HitServedFromCache == [][C3_Step]_vars

\* a request was served from the cache while the cache held several entries
\* and the key asked for was not the oldest
C3_Witness ==
  /\ reply.hit /\ Len(processCache) > 1
  /\ CacheHas(processCache, reply.cacheKey)
  /\ processCache[1].key # reply.cacheKey

\* C6: with several requests in flight, the cache never holds more than
\* CacheLimit entries, and a key leaves the cache only when the cache is
\* cleared or when it is the oldest key of a full cache that takes a new key.
C6_Step ==
  \A key \in CacheKeys(processCache) \ CacheKeys(processCache') :
    \/ processCache' = << >>
    \/ /\ Len(processCache) = CacheLimit
       /\ key = processCache[1].key
       /\ CacheKeys(processCache') \ CacheKeys(processCache) # { }

C6_SerializedWrites ==
  [](InFlight # { } => Len(processCache) <= CacheLimit) /\ [][C6_Step]_vars

\* two requests are in flight while the cache is full
C6_Witness == Cardinality(InFlight) >= 2 /\ Len(processCache) = CacheLimit

-----------------------------------------------------------------------------
(* Claims about what process-image returns *)

\* what the pipeline produces from these bytes for this request when the
\* memory optimisation is set as given
Produced(bytes, imagePath, settings, optimizeMemory) ==
  Render(bytes, EngineConfig(BuildArgs(imagePath, settings, OutputFileName(0), optimizeMemory)))

\* the requests a cache key stands for
RequestsOf(key) ==
  { pq \in Paths \X SettingsPool : getCacheKey(pq[1], pq[2]) = key }

\* C4: a request served from the cache returns what the pipeline would
\* produce from the bytes the image file holds at the time of the request.
C4_Step ==
  (env'.calls # env.calls /\ Started = { } /\ reply'.hit) =>
     \A pq \in RequestsOf(reply'.cacheKey) :
        reply'.value \in { Produced(disk.images[pq[1]], pq[1], pq[2], o) : o \in BOOLEAN }

C4_HitMatchesContent == [][C4_Step]_vars

\* C5: a request served from the cache returns what the pipeline would
\* produce under the memory optimisation in force at the time of the request.
C5_Step ==
  (env'.calls # env.calls /\ Started = { } /\ reply'.hit) =>
     \A pq \in RequestsOf(reply'.cacheKey) :
        reply'.value \in { Produced(b, pq[1], pq[2], store.optimizeMemory) : b \in ValidBytes }

C5_HitMatchesMemoryMode == [][C5_Step]_vars

\* the slots whose promise a child-process event settles in this step
SettledNow == { r \in Req : requests[r].status = "pending" /\ requests'[r].status # "pending" }

\* C7: a pipeline run resolves only after exit code 0 and a read of its
\* output file, and then with the file's content; a non-zero exit code, a
\* process that failed to start and a missing output file reject; a
\* rejection stores nothing in the cache.
C7_Step ==
  \A r \in SettledNow :
    LET q == requests[r]
        done == q.proc = "exited" /\ q.code = 0
        present == q.outputFile \in DOMAIN disk.tmp
    IN /\ reply'.status \in { "resolved", "rejected" }
       /\ reply'.cacheKey = q.cacheKey
       /\ reply'.status = "resolved" =>
            /\ done /\ present
            /\ reply'.value = disk.tmp[q.outputFile]
       /\ (~done \/ ~present) => reply'.status = "rejected"
       /\ reply'.status = "rejected" => processCache' = processCache

C7_NoPartialSuccess == [][C7_Step]_vars

\* a run that exited with code 0 was rejected because its output file could
\* not be read, and the cache has no entry for it
C7_Witness ==
  /\ reply.status = "rejected"
  /\ reply.value = "Failed to read output file: ENOENT"
  /\ ~CacheHas(processCache, reply.cacheKey)

-----------------------------------------------------------------------------
(* The output area.  A text is the sequence of its pieces: a run of plain   *)
(* characters, a line end, or an escape sequence ESC[p1m given by the       *)
(* numbers p1.split(';').map(Number) yields (an empty item yields 0).       *)

\* a piece of a text: its kind (text, nl, esc), its characters, its numbers
Piece(t, s, p) == [ t |-> t, s |-> s, p |-> p ]

\* a piece of the markup processAnsiOutput produces: '<br>' (br), '</span>'
\* (close), '<span style="color: rgb(c);">' or '<span style="color:
\* var(--ansi-c);">' or '<span>' (open, of kind rgb, var, none), characters
Tag(m, s, kind, c) == [ m |-> m, s |-> s, kind |-> kind, c |-> c ]

\* the replacement of one escape sequence.  Indices count from 0 as in the
\* code; params[i] || d is d for undefined and for 0.
SpanFor(params) ==
  LET ParamIs(i, n) == i + 1 <= Len(params) /\ params[i + 1] = n
      ParamOr(i, d) == IF i + 1 <= Len(params) /\ params[i + 1] # 0
                       THEN params[i + 1] ELSE d
  IN IF ParamIs(0, 0) THEN Tag("close", "", "", << >>)
     ELSE IF ParamIs(0, 38) /\ ParamIs(1, 5)
     THEN Tag("open", "", "var", << ParamOr(2, 7) >>)
     ELSE IF ParamIs(0, 38) /\ ParamIs(1, 2)
     THEN Tag("open", "", "rgb", << ParamOr(2, 255), ParamOr(3, 255), ParamOr(4, 255) >>)
     ELSE Tag("open", "", "none", << >>)

CountOf(markup, m) == Len(SelectSeq(markup, LAMBDA x : x.m = m))

\* processAnsiOutput: the two replacements, then the missing closing tags
ProcessAnsiOutput(ansi) ==
  LET processed == [i \in 1..Len(ansi) |->
                      IF ansi[i].t = "nl" THEN Tag("br", "", "", << >>)
                      ELSE IF ansi[i].t = "esc" THEN SpanFor(ansi[i].p)
                      ELSE Tag("text", ansi[i].s, "", << >>)]
      missing == CountOf(processed, "open") - CountOf(processed, "close")
  IN processed \o [i \in 1..(IF missing > 0 THEN missing ELSE 0) |->
                     Tag("close", "", "", << >>)]

\* updateOutputDisplay: the branch taken for this.settings.colorMode and what
\* output-area then holds; nothing when asciiOutput is null or ''
UpdateOutputDisplay(a) ==
  LET pieces == a.asciiOutput IN
  IF pieces = << >> THEN a
  ELSE [a EXCEPT !.display =
          IF a.settings.colorMode = "grayscale"
          THEN [ branch |-> "text", content |-> pieces ]
          ELSE IF a.settings.colorMode = "html"
          THEN [ branch |-> "html", content |-> pieces ]
          ELSE IF a.settings.colorMode \in { "ansi", "truecolor" }
          THEN [ branch |-> "ansi", content |-> ProcessAnsiOutput(pieces) ]
          ELSE [ branch |-> "text", content |-> pieces ]]

-----------------------------------------------------------------------------
(* The window: form events, generateAsciiArt and the messages between the   *)
(* renderer and the main process                                            *)

Digits == << "0", "1", "2", "3", "4", "5", "6", "7", "8", "9" >>
IsDigit(c) == \E i \in 1..Len(Digits) : Digits[i] = c
DigitValue(c) == (CHOOSE i \in 1..Len(Digits) : Digits[i] = c) - 1

\* the value of the longest prefix of digits, after the digits read so far
RECURSIVE ParseDigits(_, _)
ParseDigits(text, acc) ==
  IF text = << >> \/ ~IsDigit(Head(text)) THEN acc
  ELSE ParseDigits(Tail(text), 10 * acc + DigitValue(Head(text)))

RECURSIVE SkipSpace(_)
SkipSpace(text) ==
  IF text # << >> /\ Head(text) = " " THEN SkipSpace(Tail(text)) ELSE text

\* parseInt of a text given as its characters: leading blanks, a sign, then
\* digits up to the first other character; NaN when there is no digit
ParseInt(text) ==
  LET s == SkipSpace(text)
      signed == s # << >> /\ Head(s) \in { "-", "+" }
      body == IF signed THEN Tail(s) ELSE s
  IN IF body = << >> \/ ~IsDigit(Head(body)) THEN NaN
     ELSE IF signed /\ Head(s) = "-" THEN N(0 - ParseDigits(body, 0))
     ELSE N(ParseDigits(body, 0))

\* the decimal digits of a natural number
RECURSIVE NatToChars(_)
NatToChars(n) ==
  IF n < 10 THEN << Digits[n + 1] >>
  ELSE NatToChars(n \div 10) \o << Digits[(n % 10) + 1] >>

\* what a number input shows when its value is set to x: nothing for null
\* and NaN, else the digits of the integer
NumToChars(x) ==
  IF x.k # "num" THEN << >>
  ELSE IF x.v < 0 THEN << "-" >> \o NatToChars((0 - x.v) \div 100)
  ELSE NatToChars(x.v \div 100)

\* the object after the constructor and init() over a store: loadSettings
\* merges lastSettings over the constructor's settings, updateUIFromSettings
\* fills the form
LoadedApp(st) ==
  LET merged == MergeSettings(DefaultSettings, st.lastSettings)
  IN [AppInit EXCEPT !.settings = merged,
                     !.widthInput = NumToChars(merged.outputWidth),
                     !.lightTheme = ~st.darkMode,
                     !.lightIcon = IF st.darkMode THEN "none" ELSE "block",
                     !.darkIcon = IF st.darkMode THEN "block" ELSE "none"]

\* the application is closed while no child process exists and is started
\* again: main.js loads anew, the store and the files remain
Restart ==
  /\ \A r \in Req : requests[r].proc = "none"
  /\ processCache' = << >>
  /\ activeProcesses' = { }
  /\ requests' = [r \in Req |-> IdleRequest]
  /\ reply' = NoReply
  /\ helpers["suggest"].proc = "none" /\ helpers["presets"].proc = "none"
  /\ helpers' = HelpersInit
  /\ app' = LoadedApp(store)
  /\ UNCHANGED <<store, disk, now>>

\* the change handler of width-input
WidthInputChange(text) ==
  /\ app' = [app EXCEPT !.widthInput = text, !.settings.outputWidth = ParseInt(text)]
  /\ UNCHANGED mainVars

\* the pieces of an output of the pipeline: characters only, none for ''
TextPieces(text) == IF text = "" THEN << >> ELSE << Piece("text", text, << >>) >>

\* the change handler of color-mode-select
ColorModeChange(value) ==
  /\ app' = [app EXCEPT !.settings.colorMode = value]
  /\ UNCHANGED <<mainVars, helpers, env>>

\* the change handler of auto-fit-checkbox, which renders the output again
AutoFitChange ==
  /\ \E checked \in BOOLEAN :
       /\ checked # app.settings.autoFit
       /\ app' = UpdateOutputDisplay([app EXCEPT !.settings.autoFit = checked])
  /\ UNCHANGED <<mainVars, helpers, env>>

\* the change handler of custom-chars-input
CustomCharsChange(text) ==
  /\ app' = [app EXCEPT !.settings.customChars = text]
  /\ UNCHANGED mainVars

\* the click handler of theme-toggle-btn, and ipcMain.handle('toggle-dark-mode')
ThemeToggle ==
  LET isDarkMode == ~app.lightTheme
  IN /\ app' = [app EXCEPT !.lightTheme = ~app.lightTheme,
                           !.lightIcon = IF isDarkMode THEN "none" ELSE "block",
                           !.darkIcon = IF isDarkMode THEN "block" ELSE "none"]
     /\ store' = [store EXCEPT !.darkMode = isDarkMode]
     /\ UNCHANGED <<processCache, activeProcesses, requests, disk, now, reply>>

\* selectImage, when the file dialog has returned filePath
SelectImage(filePath) ==
  /\ app' = [app EXCEPT !.selectedImagePath = filePath]
  /\ UNCHANGED mainVars

\* showStatus: the message, its class, and a timer that clears them
ShowStatus(a, message, type) ==
  [a EXCEPT !.status = [message |-> message, type |-> type], !.timers = a.timers + 1]

\* the timer of showStatus fires
StatusTimeout ==
  /\ app.timers > 0
  /\ app' = [app EXCEPT !.status = NoStatus, !.timers = app.timers - 1]
  /\ UNCHANGED mainVars

\* settings.js: the presets analyzeImage chooses from
PRESETS ==
  [ photo |->
      [ outputWidth |-> N(120), colorMode |-> "ansi", dithering |-> TRUE,
        edgeDetect |-> FALSE, preset |-> "photo", enhanceContrast |-> TRUE,
        aspectRatioCorrection |-> D(55), invert |-> FALSE, edgeThreshold |-> N(75),
        blur |-> N(0), sharpen |-> D(250), brightness |-> D(115), saturation |-> D(120),
        contrast |-> D(130), detailLevel |-> D(120), gamma |-> N(1) ],
    lineart |->
      [ outputWidth |-> N(100), colorMode |-> "grayscale", dithering |-> FALSE,
        edgeDetect |-> TRUE, preset |-> "lineart", enhanceContrast |-> TRUE,
        aspectRatioCorrection |-> D(55), invert |-> FALSE, edgeThreshold |-> N(50),
        blur |-> N(0), sharpen |-> N(3), brightness |-> N(1), saturation |-> N(0),
        contrast |-> D(150), detailLevel |-> D(150), gamma |-> D(120) ],
    highdetail |->
      [ outputWidth |-> N(160), colorMode |-> "ansi", dithering |-> TRUE,
        edgeDetect |-> FALSE, preset |-> "ultra", enhanceContrast |-> TRUE,
        aspectRatioCorrection |-> D(50), invert |-> FALSE, edgeThreshold |-> N(75),
        blur |-> N(0), sharpen |-> N(2), brightness |-> N(1), saturation |-> D(110),
        contrast |-> D(130), detailLevel |-> D(140), gamma |-> N(1) ] ]

\* imagePath.toLowerCase().split('.').pop(), for the paths a dialog returns
Extension(imagePath) == IF imagePath = "a.png" THEN "png" ELSE ""

\* an applyPreset that spreads the preset over the constructor's settings
ApplyPreset_OverDefaults(a, preset) ==
  LET displaySettings == [f \in { "fontFamily", "fontSize", "autoFit", "bgColor", "textColor" }
                            |-> a.settings[f]]
      merged == MergeSettings(MergeSettings(DefaultSettings, preset), displaySettings)
  IN IF DOMAIN preset = { } THEN a
     ELSE ShowStatus([a EXCEPT !.settings = merged,
                               !.widthInput = NumToChars(merged.outputWidth)],
                     "Preset applied", "success")

\* applyPreset: nothing without a preset (an undefined preset is the record
\* of no fields); otherwise the preset over the settings, the display
\* settings kept, updateUIFromSettings, showStatus
ApplyPreset(a, preset) ==
  LET displaySettings == [f \in { "fontFamily", "fontSize", "autoFit", "bgColor", "textColor" }
                            |-> a.settings[f]]
      merged == MergeSettings(MergeSettings(a.settings, preset), displaySettings)
  IN IF DOMAIN preset = { } THEN a
     ELSE ShowStatus([a EXCEPT !.settings = merged,
                               !.widthInput = NumToChars(merged.outputWidth)],
                     "Preset applied", "success")

\* analyzeImage up to setTimeout
AnalyzeImage ==
  /\ app.selectedImagePath # ""
  /\ app' = [ShowStatus(app, "Analyzing image...", "info")
               EXCEPT !.loading = TRUE, !.analyzing = app.analyzing + 1]
  /\ UNCHANGED mainVars

\* the timer of analyzeImage fires after a second
AnalyzeTimeout ==
  /\ app.analyzing > 0
  /\ LET ext == Extension(app.selectedImagePath)
         suggestedPreset == IF ext \in { "png", "gif" } THEN PRESETS.lineart
                            ELSE IF ext \in { "jpg", "jpeg" } THEN PRESETS.photo
                            ELSE PRESETS.highdetail
     IN app' = ShowStatus([ApplyPreset(app, suggestedPreset)
                             EXCEPT !.loading = FALSE, !.analyzing = app.analyzing - 1],
                          "Analysis complete. Applied recommended settings.", "success")
  /\ UNCHANGED <<mainVars, helpers, env>>

GenerateAsciiArt_Reentrant ==
  /\ app.selectedImagePath # ""
  /\ app' = [app EXCEPT !.isProcessing = TRUE, !.loading = TRUE,
                        !.call = [ stage |-> "sent",
                                   imagePath |-> app.selectedImagePath,
                                   settings |-> app.settings,
                                   processingSettings |-> app.settings ]]
  /\ UNCHANGED mainVars

\* generateAsciiArt up to the await of process-image
GenerateAsciiArt ==
  /\ app.selectedImagePath # "" /\ ~app.isProcessing
  /\ app' = [app EXCEPT !.isProcessing = TRUE, !.loading = TRUE,
                        !.call = [ stage |-> "sent",
                                   imagePath |-> app.selectedImagePath,
                                   settings |-> app.settings,
                                   processingSettings |-> app.settings ]]
  /\ UNCHANGED mainVars

\* the main process receives the invoke and runs the process-image handler
ReceiveProcessImage(r, stamps, spawnOks, pids) ==
  /\ app.call.stage = "sent"
  /\ ProcessImage(r, app.call.imagePath, app.call.settings, stamps, spawnOks, pids)
  /\ app' = [app EXCEPT !.call.stage = "awaiting"]

\* generateAsciiArt after process-image resolved, up to the await of save-settings
ProcessImageResolved ==
  /\ app.call.stage = "awaiting" /\ reply.status = "resolved"
  /\ app' = [ShowStatus(UpdateOutputDisplay([app EXCEPT !.asciiOutput =
                                                           TextPieces(reply.value)]),
                         "ASCII art generated successfully", "success")
               EXCEPT !.call = [ stage |-> "saving", imagePath |-> "",
                                 settings |-> app.settings,
                                 processingSettings |-> app.call.processingSettings ]]
  /\ reply' = NoReply
  /\ UNCHANGED <<processCache, store, activeProcesses, requests, disk, now>>

\* generateAsciiArt after process-image rejected: the catch and the finally
ProcessImageRejected ==
  /\ app.call.stage = "awaiting" /\ reply.status = "rejected"
  /\ app' = [ShowStatus(app, "Error generating ASCII art", "error")
               EXCEPT !.console = reply.value,
                      !.isProcessing = FALSE, !.loading = FALSE,
                      !.call = NoCall]
  /\ reply' = NoReply
  /\ UNCHANGED <<processCache, store, activeProcesses, requests, disk, now>>

\* ipcMain.handle('save-settings')
SaveSettings ==
  /\ app.call.stage = "saving"
  /\ store' = [store EXCEPT !.lastSettings = Persisted(app.call.settings)]
  /\ app' = [app EXCEPT !.call.stage = "saved"]
  /\ UNCHANGED <<processCache, activeProcesses, requests, disk, now, reply>>

\* generateAsciiArt after save-settings returned: the finally
GenerateFinally ==
  /\ app.call.stage = "saved"
  /\ app' = [app EXCEPT !.isProcessing = FALSE, !.loading = FALSE, !.call = NoCall]
  /\ UNCHANGED mainVars

\* what the user may type into width-input
WidthTexts == { << "8", "0" >>, << "0" >>, << >>, << "-", "5" >> }

\* the window starts over a file system whose image can or cannot be decoded
GuiInit ==
  /\ \E bytes \in { "img1", CorruptBytes } : MainInit([p \in Paths |-> bytes], TRUE)
  /\ app = AppInit
  /\ helpers = HelpersInit
  /\ EnvInit

UserSelect == \E filePath \in Paths : SelectImage(filePath) /\ UNCHANGED <<helpers, env>>

UserWidth == \E text \in WidthTexts : WidthInputChange(text) /\ UNCHANGED <<helpers, env>>

UserGenerate ==
  /\ env.calls < MaxCalls
  /\ GenerateAsciiArt
  /\ env' = [env EXCEPT !.calls = env.calls + 1]
  /\ UNCHANGED helpers

Receive ==
  \E r \in Req :
    /\ FreeSlot(r)
    /\ ReceiveProcessImage(r, Stamps, BOOLEAN, PidChoices)
    /\ UNCHANGED <<helpers, env>>

Resolved == ProcessImageResolved /\ UNCHANGED <<helpers, env>>

Rejected == ProcessImageRejected /\ UNCHANGED <<helpers, env>>

Save == SaveSettings /\ UNCHANGED <<helpers, env>>

Finally == GenerateFinally /\ UNCHANGED <<helpers, env>>

Timeout == StatusTimeout /\ UNCHANGED <<helpers, env>>

GuiNext ==
  \/ UserSelect \/ UserWidth \/ UserGenerate \/ Receive
  \/ Exit \/ Close \/ Error
  \/ Resolved \/ Rejected \/ Save \/ Finally \/ Timeout

SpecGui == GuiInit /\ [][GuiNext]_vars

-----------------------------------------------------------------------------
(* The display of a result: the window holds an output of the engine and    *)
(* shows it.                                                                *)

\* the outputs of at most MaxAnsiLen pieces: characters, line ends, resets,
\* bold, truecolor and 256-colour sequences
AnsiInputs ==
  LET Esc(p) == Piece("esc", "", p)
      pieces == { Piece("text", "#", << >>), Piece("nl", "", << >>),
                  Esc(<< 0 >>), Esc(<< 1 >>), Esc(<< 38, 2, 255, 128, 1 >>),
                  Esc(<< 38, 2, 0, 0, 0 >>), Esc(<< 38, 5, 196 >>),
                  Esc(<< 38, 5, 15 >>), Esc(<< 38, 5, 0 >>) }
  IN UNION { [1..n -> pieces] : n \in 1..MaxAnsiLen }

AnsiInit ==
  /\ MainInit([p \in Paths |-> "img1"], TRUE)
  /\ \E ansi \in AnsiInputs, mode \in { "ansi", "truecolor" } :
       app = [AppInit EXCEPT !.asciiOutput = ansi, !.settings.colorMode = mode]
  /\ helpers = HelpersInit
  /\ EnvInit

AnsiDisplay ==
  /\ app.display.branch = "none"
  /\ app' = UpdateOutputDisplay(app)
  /\ UNCHANGED <<mainVars, helpers, env>>

\* the output is shown; afterwards the user changes the colour mode and
\* the auto-fit checkbox
AnsiNext ==
  \/ AnsiDisplay
  \/ app.display.branch # "none" /\ AutoFitChange
  \/ /\ app.display.branch # "none"
     /\ \E value \in { "grayscale", "html", "ansi" } : ColorModeChange(value)

SpecAnsi == AnsiInit /\ [][AnsiNext]_vars

-----------------------------------------------------------------------------
(* The session specification: the window and the main process over several  *)
(* runs of the application, with a bounded number of form edits             *)

\* what the user may type into custom-chars-input
CustomTexts == { "", "@#" }

\* one use of the form: the width, the custom characters, the theme or the
\* analyze button
SessionEdit ==
  /\ env.edits < MaxEdits
  /\ \/ \E text \in WidthTexts : WidthInputChange(text)
     \/ \E text \in CustomTexts : CustomCharsChange(text)
     \/ ThemeToggle
     \/ AnalyzeImage
  /\ env' = [env EXCEPT !.edits = env.edits + 1]
  /\ UNCHANGED helpers

UserRestart ==
  /\ env.restarts < MaxRestarts
  /\ Restart
  /\ env' = [env EXCEPT !.restarts = env.restarts + 1]

SessionNext ==
  \/ AnalyzeTimeout
  \/ UserSelect \/ SessionEdit \/ UserGenerate \/ Receive
  \/ Exit \/ Close \/ Error
  \/ Resolved \/ Rejected \/ Save \/ Finally \/ Timeout
  \/ UserRestart

SpecSession == GuiInit /\ [][SessionNext]_vars

\* what the scheduling guarantees: a message sent is received, a child
\* process ends, its events are delivered, a settled promise resumes the
\* function that awaits it.  Nothing obliges the user to act.
SessionFairness ==
  /\ WF_vars(Receive) /\ WF_vars(Exit) /\ WF_vars(Close) /\ WF_vars(Error)
  /\ WF_vars(Resolved) /\ WF_vars(Rejected) /\ WF_vars(Save) /\ WF_vars(Finally)

SpecSessionFair == GuiInit /\ [][SessionNext]_vars /\ SessionFairness

-----------------------------------------------------------------------------
(* process-image invoked with every combination of the four boolean         *)
(* settings, over the numbers of a preset and over a width that is not a    *)
(* number; memory optimization on and off.                                  *)

ArgsPool ==
  { [base EXCEPT !.dithering = d, !.edgeDetect = e, !.enhanceContrast = c, !.invert = i] :
      base \in { MergeSettings(DefaultSettings, PRESETS.lineart),
                 [DefaultSettings EXCEPT !.outputWidth = NaN] },
      d \in BOOLEAN, e \in BOOLEAN, c \in BOOLEAN, i \in BOOLEAN }

ArgsInvoke ==
  \E r \in Req, settings \in ArgsPool :
    /\ FreeSlot(r)
    /\ env.calls < MaxCalls
    /\ ProcessImage(r, "a.png", settings, { now + 1 }, { TRUE }, PidChoices)
    /\ env' = [env EXCEPT !.calls = env.calls + 1]
    /\ UNCHANGED <<app, helpers>>

SpecArgs == CacheInit /\ [][ArgsInvoke \/ SweepExit \/ SweepClose \/ Toggle]_vars

-----------------------------------------------------------------------------
(* The preset controls: the window, with or without a result on display,    *)
(* where the user picks an image, types custom characters, switches         *)
(* auto-fit, zooms, and chooses presets.                                    *)

\* zoomIn and zoomOut: one step along the levels
ZoomLevels == << 50, 75, 100, 125, 150, 200 >>

ZoomIn ==
  LET currentIndex == CHOOSE i \in 1..Len(ZoomLevels) : ZoomLevels[i] = app.zoomLevel
  IN /\ currentIndex < Len(ZoomLevels)
     /\ app' = [app EXCEPT !.zoomLevel = ZoomLevels[currentIndex + 1]]
     /\ UNCHANGED <<mainVars, helpers, env>>

ZoomOut ==
  LET currentIndex == CHOOSE i \in 1..Len(ZoomLevels) : ZoomLevels[i] = app.zoomLevel
  IN /\ currentIndex > 1
     /\ app' = [app EXCEPT !.zoomLevel = ZoomLevels[currentIndex - 1]]
     /\ UNCHANGED <<mainVars, helpers, env>>

\* the change handler of preset-config-select and the click handler of a
\* preset button: applyPreset when the key names a preset
PresetSelect(presetKey) ==
  /\ app' = IF presetKey # "" /\ presetKey \in DOMAIN PRESETS
            THEN ApplyPreset(app, PRESETS[presetKey])
            ELSE app
  /\ UNCHANGED mainVars

PresetInit ==
  /\ MainInit([p \in Paths |-> "img1"], TRUE)
  /\ app \in { AppInit,
               UpdateOutputDisplay([AppInit EXCEPT !.selectedImagePath = "a.png",
                                                   !.asciiOutput = TextPieces("art")]) }
  /\ helpers = HelpersInit
  /\ EnvInit

PresetNext ==
  \/ UserSelect
  \/ \E text \in CustomTexts : CustomCharsChange(text) /\ UNCHANGED <<helpers, env>>
  \/ AutoFitChange
  \/ ZoomIn \/ ZoomOut
  \/ Timeout
  \/ /\ env.edits < MaxEdits
     /\ \E presetKey \in (DOMAIN PRESETS) \cup { "" } : PresetSelect(presetKey)
     /\ env' = [env EXCEPT !.edits = env.edits + 1]
     /\ UNCHANGED helpers

SpecPreset == PresetInit /\ [][PresetNext]_vars

-----------------------------------------------------------------------------
(* The +/- buttons of a number input, on the width input: the user types a  *)
(* content and clicks the buttons; the input's min and max attributes are   *)
(* those of the page.                                                       *)

\* Math.max(parseInt(input.min) || 0, parseInt(input.value) - 1)
MinusValue(min, value) ==
  LET m == ParseInt(min)
      lo == IF IsNum(m) /\ m.v # 0 THEN m.v ELSE 0
      v == ParseInt(value)
  IN IF ~IsNum(v) THEN NaN
     ELSE JSNum(IF v.v - 100 > lo THEN v.v - 100 ELSE lo)

\* Math.min(parseInt(input.max) || Infinity, parseInt(input.value) + 1)
PlusValue(max, value) ==
  LET m == ParseInt(max)
      v == ParseInt(value)
  IN IF ~IsNum(v) THEN NaN
     ELSE IF IsNum(m) /\ m.v # 0 /\ m.v < v.v + 100 THEN m
     ELSE JSNum(v.v + 100)

\* the click handler of a minus button: the value is set, and the change
\* event it dispatches runs the change handler of the input
MinusClick ==
  WidthInputChange(NumToChars(MinusValue(app.widthMin, app.widthInput)))

\* the click handler of a plus button
PlusClick ==
  WidthInputChange(NumToChars(PlusValue(app.widthMax, app.widthInput)))

\* the min and max attributes a number input of the page may have
MinTexts == { << >>, << "1" >>, << "1", "0" >> }
MaxTexts == { << >>, << "9", "0" >> }

NumberInit ==
  /\ MainInit([p \in Paths |-> "img1"], TRUE)
  /\ \E min \in MinTexts, max \in MaxTexts :
       app = [AppInit EXCEPT !.widthMin = min, !.widthMax = max]
  /\ helpers = HelpersInit
  /\ EnvInit

NumberNext ==
  \/ UserWidth
  \/ /\ env.edits < MaxEdits
     /\ MinusClick
     /\ env' = [env EXCEPT !.edits = env.edits + 1]
     /\ UNCHANGED helpers
  \/ /\ env.extras < MaxExtras
     /\ PlusClick
     /\ env' = [env EXCEPT !.extras = env.extras + 1]
     /\ UNCHANGED helpers

SpecNumber == NumberInit /\ [][NumberNext]_vars

-----------------------------------------------------------------------------
(* Claims about failures and about the numbers on the command line *)

\* the rejection of process-image for a run that ended with an error kind
PythonErrorMessage(kind) == "Python error: " \o kind

ErrorKinds ==
  { "ImageDecodeError", "InvalidConfigError", "UnknownPresetError", "ProcessingError" }

\* the error kind a rejection reports, "" when it reports none
ErrorKind(message) ==
  IF \E k \in ErrorKinds : message = PythonErrorMessage(k)
  THEN CHOOSE k \in ErrorKinds : message = PythonErrorMessage(k)
  ELSE ""

\* C8: two failed conversions of different error kinds do not show the same
\* status message: when a failure of one kind is shown while the message of
\* a failure of another kind is still shown, the message changes.
C8_Step ==
  ( /\ app.status.type = "error" /\ app'.status.type = "error"
    /\ ErrorKind(app.console) # "" /\ ErrorKind(app'.console) # ""
    /\ ErrorKind(app.console) # ErrorKind(app'.console) )
  => app'.status.message # app.status.message

C8_FailureKindsDistinguished == [][C8_Step]_vars

\* the children that have been launched
Launched == { r \in Req : requests[r].proc # "none" }

\* C9: a conversion requested with outputWidth 0 is not resolved with a
\* string, and no Python process is launched with a --width that is zero or
\* negative.
C9_ZeroWidthFails ==
  /\ (app.call.stage = "awaiting" /\ app.call.settings.outputWidth = N(0))
       => reply.status # "resolved"
  /\ \A r \in Launched :
       LET w == requests[r].settings.outputWidth IN
         /\ ArgValue(requests[r].args, "--width") = NumToString(w)
         /\ ~(IsNum(w) /\ w.v <= 0)

\* the numeric settings process-image places on the command line, with the
\* option each one is the value of
NumericOptions ==
  [ outputWidth |-> "--width", edgeThreshold |-> "--edge-threshold",
    aspectRatioCorrection |-> "--aspect-ratio", blur |-> "--blur",
    sharpen |-> "--sharpen", brightness |-> "--brightness",
    saturation |-> "--saturation", contrast |-> "--contrast",
    detailLevel |-> "--detail-level", gamma |-> "--gamma" ]

\* the declared range of a numeric setting, in hundredths
InRange(f, x) ==
  /\ IsNum(x)
  /\ CASE f = "outputWidth" -> x.v > 0 /\ x.v % 100 = 0
       [] f = "edgeThreshold" -> 0 <= x.v /\ x.v <= 25500
       [] f \in { "blur", "sharpen" } -> x.v >= 0
       [] OTHER -> x.v > 0

\* C10: every numeric value on the command line of a launched Python process
\* is a number inside its declared range, never NaN.
C10_NumbersInRange ==
  \A r \in Launched : \A f \in DOMAIN NumericOptions :
    /\ ArgValue(requests[r].args, NumericOptions[f]) = NumToString(requests[r].settings[f])
    /\ InRange(f, requests[r].settings[f])

-----------------------------------------------------------------------------
(* Claims about the command line of a launched conversion *)

\* C11: a launched conversion whose settings have a non-empty customChars is
\* given those characters (--custom-chars) and no --preset; one whose
\* customChars is empty is given the preset and no --custom-chars.
C11_CustomCharsOverridePreset ==
  \A r \in Launched :
    LET q == requests[r] IN
      IF q.settings.customChars # ""
      THEN /\ ArgValue(q.args, "--custom-chars") = q.settings.customChars
           /\ ~HasArg(q.args, "--preset")
      ELSE /\ ArgValue(q.args, "--preset") = q.settings.preset
           /\ ~HasArg(q.args, "--custom-chars")

\* C12: every process-image request eventually resolves or rejects, and
\* isProcessing eventually returns to false after every generate.
C12_EventuallySettles ==
  /\ \A r \in Req : (requests[r].status = "pending") ~> (requests[r].status # "pending")
  /\ app.isProcessing ~> ~app.isProcessing

\* C13: every launched conversion carries --max-image-size, whatever
\* toggle-memory-optimization calls came before.
C13_DownscaleMandatory ==
  \A r \in Launched : HasArg(requests[r].args, "--max-image-size")

-----------------------------------------------------------------------------
\* C14: suggest-optimal-settings is advisory.  No step of it (the call, the
\* exit of its child, its close and error handlers) changes the result
\* cache, the persisted settings or the set of active processes; its promise
\* is never rejected, every value it resolves with carries a boolean
\* success, and a promise still pending has a child whose events will
\* resolve it.
C14_Step ==
  helpers'["suggest"] # helpers["suggest"] =>
    /\ processCache' = processCache
    /\ store' = store
    /\ activeProcesses' = activeProcesses

C14_Resolves ==
  LET h == helpers["suggest"] IN
  /\ h.reply.status \in { "none", "resolved" }
  /\ h.reply.status = "resolved" => h.reply.success \in BOOLEAN
  /\ h.status = "pending" => h.proc # "none"
  /\ h.status = "settled" => h.reply.status = "resolved"

C14_SuggestIsAdvisory == [](C14_Resolves) /\ [][C14_Step]_vars

\* the regex fallback succeeded while a generation's result is cached
C14_Witness ==
  /\ helpers["suggest"].reply.status = "resolved"
  /\ helpers["suggest"].reply.success
  /\ helpers["suggest"].reply.settings =
       << <<"outputWidth", "80">>, <<"colorMode", "ansi">>, <<"dithering", "true">> >>
  /\ helpers["suggest"].proc = "none"
  /\ processCache # << >>
  /\ store.lastSettings # StoreDefaultLastSettings

-----------------------------------------------------------------------------
\* C15: get-character-presets never rejects.  Its promise resolves with the
\* parsed output when the child exited with code 0 and printed JSON, and
\* with an empty array when the bridge script is missing, the exit code is
\* not 0, the output does not parse or the child failed to start; no step
\* of it changes the result cache or the persisted settings.
C15_Step ==
  LET h == helpers["presets"]
      h2 == helpers'["presets"]
  IN  /\ h2 # h => processCache' = processCache /\ store' = store
      /\ (h.proc = "none" /\ h2.proc = "none" /\ h2.status = "settled" /\ h2 # h) =>
           ~disk.bridge /\ h2.reply = [ status |-> "resolved", value |-> << >> ]
      /\ (h.status = "pending" /\ h2.status = "settled") =>
           /\ h2.reply.status = "resolved"
           /\ h2.reply.value =
                IF h.proc = "exited" /\ h.code = 0 /\ JSONParse(h.stdoutData).ok
                THEN JSONParse(h.stdoutData).value
                ELSE << >>

C15_Resolves ==
  LET h == helpers["presets"] IN
  /\ h.reply.status \in { "none", "resolved" }
  /\ h.status = "pending" => h.proc # "none"
  /\ h.status = "settled" => h.reply.status = "resolved"

C15_PresetsNeverReject == [](C15_Resolves) /\ [][C15_Step]_vars

\* the presets were parsed and delivered while a generation's result is cached
C15_Witness ==
  /\ helpers["presets"].reply.status = "resolved"
  /\ helpers["presets"].reply.value = << <<"standard", "@#*. ">>, <<"blocks", "#= ">> >>
  /\ helpers["presets"].proc = "none"
  /\ processCache # << >>

-----------------------------------------------------------------------------
\* C16: the persisted darkMode is true exactly when the displayed theme is
\* dark (the body has no light-theme class), so that the next start shows
\* the theme that was displayed when the application was closed.
C16_ThemePersists == store.darkMode <=> ~app.lightTheme

-----------------------------------------------------------------------------
\* C17: after a generation succeeds, the persisted lastSettings are the
\* settings that generation was run with, and the next start restores every
\* stored field and keeps the built-in default of every field that is not
\* stored.
C17_Step ==
  /\ (app.call.stage = "saving" /\ app'.call.stage = "saved") =>
       store'.lastSettings = app.call.processingSettings
  /\ (env'.restarts # env.restarts) =>
       \A f \in DOMAIN DefaultSettings :
         app'.settings[f] = IF f \in DOMAIN store.lastSettings
                            THEN store.lastSettings[f]
                            ELSE DefaultSettings[f]

C17_SettingsPersist == [][C17_Step]_vars

-----------------------------------------------------------------------------
\* C18: a process-image request that ends in rejection leaves the result
\* cache and the persisted lastSettings as they were before the request:
\* when the only request made so far has been rejected, the cache is still
\* empty and lastSettings are still the ones the store started with.
C18_RejectionLeavesNoTrace ==
  (env.calls = 1 /\ reply.status = "rejected") =>
    /\ processCache = << >>
    /\ store.lastSettings = StoreDefaultLastSettings

-----------------------------------------------------------------------------
\* C19: generation is single-flight.  generateAsciiArt issues a request only
\* when an image is selected and no generation is in progress, so at most
\* one process-image request of the renderer (sent and not yet received, or
\* pending in the main process) is outstanding at any time.
Outstanding ==
  Cardinality({ r \in Req : requests[r].status = "pending" })
  + (IF app.call.stage = "sent" THEN 1 ELSE 0)

C19_Step ==
  (app'.call.stage = "sent" /\ app.call.stage # "sent") =>
    app.selectedImagePath # "" /\ ~app.isProcessing

C19_SingleFlight ==
  /\ [](Outstanding <= 1 /\ (Outstanding = 1 => app.isProcessing))
  /\ [][C19_Step]_vars

\* the second generation is in flight after the first one has finished
C19_Witness ==
  /\ env.calls = 2
  /\ app.call.stage = "awaiting"
  /\ Outstanding = 1
  /\ app.asciiOutput # << >>

-----------------------------------------------------------------------------
\* C20: while a generation is in progress the loading overlay is displayed;
\* nothing that runs in the meantime, the timer of analyzeImage included,
\* hides it before the generation settles.
C20_OverlayWhileProcessing == app.isProcessing => app.loading

-----------------------------------------------------------------------------
\* C21: between handlers, activeProcesses holds exactly the pids of the
\* children of process-image that have emitted neither close nor error (the
\* running ones and the exited ones whose close is still to come), and is
\* empty once all of them have ended.  The undefined pid of a child that
\* could not be started is left out of the comparison.
C21_ActiveProcessesExact ==
  activeProcesses \ { UndefinedPid } =
    { requests[r].pid : r \in { x \in Req : requests[x].proc \in { "running", "exited" } } }

-----------------------------------------------------------------------------
\* C22: when all windows are closed, every Python child the application
\* started that is still running (a conversion, the preset listing, the
\* settings suggestion) is sent a kill: none of them is running afterwards.
C22_Step ==
  (env'.closed # env.closed) =>
    /\ \A r \in Req : requests[r].proc = "running" => requests'[r].proc # "running"
    /\ \A h \in DOMAIN helpers : helpers[h].proc = "running" => helpers'[h].proc # "running"

C22_AllChildrenKilled == [][C22_Step]_vars

-----------------------------------------------------------------------------
\* C23: truecolor output keeps its colour.  For every escape sequence
\* ESC[38;2;R;G;Bm of the output, processAnsiOutput emits in its place a
\* span whose colour is exactly rgb(R, G, B).
C23_TruecolorExact ==
  app.display.branch = "ansi" =>
    \A i \in 1..Len(app.asciiOutput) :
      LET x == app.asciiOutput[i] IN
      (x.t = "esc" /\ Len(x.p) = 5 /\ x.p[1] = 38 /\ x.p[2] = 2) =>
        app.display.content[i] = Tag("open", "", "rgb", << x.p[3], x.p[4], x.p[5] >>)

-----------------------------------------------------------------------------
\* C24: 256-colour output is shown with the palette entry the engine chose.
\* For every escape sequence ESC[38;5;Nm of the output, processAnsiOutput
\* emits in its place a span that refers to palette entry N; index 0 is
\* entry 0 and index 15 is entry 15.
C24_PaletteExact ==
  app.display.branch = "ansi" =>
    \A i \in 1..Len(app.asciiOutput) :
      LET x == app.asciiOutput[i] IN
      (x.t = "esc" /\ Len(x.p) = 3 /\ x.p[1] = 38 /\ x.p[2] = 5) =>
        app.display.content[i] = Tag("open", "", "var", << x.p[3] >>)

-----------------------------------------------------------------------------
\* C25: the markup processAnsiOutput returns has its spans properly closed:
\* as many closing tags as opening tags, and in every prefix of the markup
\* no more closing tags than opening tags.
C25_SpansBalanced ==
  app.display.branch = "ansi" =>
    LET markup == app.display.content IN
    /\ CountOf(markup, "close") = CountOf(markup, "open")
    /\ \A n \in 1..Len(markup) :
         CountOf(SubSeq(markup, 1, n), "close") <= CountOf(SubSeq(markup, 1, n), "open")

-----------------------------------------------------------------------------
\* C26: the displayed output is interpreted according to the colour mode it
\* was generated with: once an output is displayed, rendering it again after
\* settings.colorMode was changed does not change the branch of
\* updateOutputDisplay (plain text, HTML, ANSI conversion) applied to it.
C26_Step ==
  (app.display.branch # "none" /\ app'.asciiOutput = app.asciiOutput) =>
    app'.display.branch = app.display.branch

C26_ModeOfOutputKept == [][C26_Step]_vars

-----------------------------------------------------------------------------
\* C27: each conversion in flight has its own temporary output file: two
\* process-image requests that are pending at the same time, each with a
\* child that was started, never have the same output path.
C27_OwnOutputFile ==
  \A r1, r2 \in Req :
    (r1 # r2 /\ requests[r1].status = "pending" /\ requests[r2].status = "pending"
       /\ requests[r1].proc # "none" /\ requests[r2].proc # "none") =>
      requests[r1].outputFile # requests[r2].outputFile

-----------------------------------------------------------------------------
\* C28: the temporary output file is cleaned up.  When a request whose child
\* was started settles, by resolving or by rejecting, its output file no
\* longer exists (stated for a request that does not share its output path
\* with another request).
C28_Step ==
  \A r \in SettledNow :
    (/\ requests[r].proc # "none"
     /\ \A x \in Req \ { r } : requests[x].outputFile # requests[r].outputFile) =>
      requests[r].outputFile \notin DOMAIN disk'.tmp

C28_TempFileRemoved == [][C28_Step]_vars

-----------------------------------------------------------------------------
\* C29: clear-cache empties the cache, and a result computed by a conversion
\* started before the clear is never served from the cache to a request
\* made after it: the first request made after a clear, before which the
\* cache was empty and no conversion was started, is not a cache hit.
C29_Step ==
  /\ (env'.clearedAt # env.clearedAt) => processCache' = << >>
  /\ (env'.calls # env.calls /\ env.clearedAt = env.calls /\ Started = { }) => ~reply'.hit

C29_ClearedResultsNotServed == [][C29_Step]_vars

-----------------------------------------------------------------------------
\* C30: a request served from the cache changes no state: the cache keeps
\* its entries in their order, and lastSettings, activeProcesses, the
\* requests in flight, the files and the clock are as before; so when the
\* oldest key of a full cache has just been served and a new key is stored,
\* it is still that oldest key that is evicted.
C30_Step ==
  /\ (env'.calls # env.calls /\ Started = { } /\ reply'.hit) =>
       /\ processCache' = processCache
       /\ store' = store
       /\ activeProcesses' = activeProcesses
       /\ requests' = requests /\ disk' = disk /\ now' = now
  /\ (/\ reply.hit /\ Len(processCache) = CacheLimit
      /\ reply.cacheKey = processCache[1].key
      /\ CacheKeys(processCache') \ CacheKeys(processCache) # { }) =>
       reply.cacheKey \notin CacheKeys(processCache')

C30_HitChangesNothing == [][C30_Step]_vars

\* the oldest key of a full cache has just been served from the cache
C30_Witness ==
  /\ reply.hit /\ env.calls = CacheLimit + 1
  /\ Len(processCache) = CacheLimit
  /\ reply.cacheKey = processCache[1].key

-----------------------------------------------------------------------------
\* the valued options of the command line and the setting each one carries
C31_Options ==
  { << "--width", "outputWidth" >>, << "--edge-threshold", "edgeThreshold" >>,
    << "--aspect-ratio", "aspectRatioCorrection" >>, << "--blur", "blur" >>,
    << "--sharpen", "sharpen" >>, << "--brightness", "brightness" >>,
    << "--saturation", "saturation" >>, << "--contrast", "contrast" >>,
    << "--detail-level", "detailLevel" >>, << "--gamma", "gamma" >> }

\* C31: the command line of a launched conversion has each valued option
\* followed by the text of the request's value for it, --color and --preset
\* followed by the request's colour mode and preset, and the flags --dither,
\* --edges, --invert exactly when the setting is true and --no-enhance
\* exactly when enhanceContrast is false.
C31_FullCommandLine ==
  \A r \in Req :
    requests[r].proc # "none" =>
      LET args == requests[r].args
          settings == requests[r].settings
      IN /\ \A o \in C31_Options :
              HasArg(args, o[1]) /\ ArgValue(args, o[1]) = NumToString(settings[o[2]])
         /\ HasArg(args, "--color") /\ ArgValue(args, "--color") = settings.colorMode
         /\ HasArg(args, "--preset") /\ ArgValue(args, "--preset") = settings.preset
         /\ HasArg(args, "--dither") = settings.dithering
         /\ HasArg(args, "--edges") = settings.edgeDetect
         /\ HasArg(args, "--invert") = settings.invert
         /\ HasArg(args, "--no-enhance") = ~settings.enhanceContrast

\* a conversion runs with the settings of a preset, all three positive flags
\* set and contrast enhancement off, memory optimization switched off
C31_Witness ==
  \E r \in Req :
    /\ requests[r].proc = "running"
    /\ requests[r].settings.dithering /\ requests[r].settings.edgeDetect
    /\ requests[r].settings.invert /\ ~requests[r].settings.enhanceContrast
    /\ requests[r].settings.outputWidth = N(100)
    /\ requests[r].settings.preset = "lineart"
    /\ ~HasArg(requests[r].args, "--optimize-for")

-----------------------------------------------------------------------------
\* the five colour modes of the closed variant
C32_Modes == { "grayscale", "ansi256", "truecolor", "html", "braille" }

\* C32: every colour mode the application itself assigns is one of
\* grayscale, ansi256, truecolor, html, braille: the mode of the window's
\* settings, the mode of the stored lastSettings and the mode of every
\* built-in preset.
C32_ClosedColorMode ==
  /\ app.settings.colorMode \in C32_Modes
  /\ store.lastSettings.colorMode \in C32_Modes
  /\ \A p \in DOMAIN PRESETS : PRESETS[p].colorMode \in C32_Modes

-----------------------------------------------------------------------------
\* the settings applyPreset is to keep
C33_Kept == { "fontFamily", "fontSize", "autoFit", "bgColor", "textColor", "customChars" }

\* C33: a choice in the preset controls either changes nothing, or sets the
\* sixteen processing fields to the values of one preset; in both cases the
\* display settings, customChars, selectedImagePath, asciiOutput and
\* zoomLevel are as before.
C33_Step ==
  (env'.edits # env.edits) =>
    /\ \/ app' = app
       \/ \E p \in DOMAIN PRESETS :
            /\ Cardinality(DOMAIN PRESETS[p]) = 16
            /\ \A f \in DOMAIN PRESETS[p] : app'.settings[f] = PRESETS[p][f]
    /\ \A f \in C33_Kept : app'.settings[f] = app.settings[f]
    /\ DOMAIN app'.settings = DOMAIN app.settings
    /\ app'.selectedImagePath = app.selectedImagePath
    /\ app'.asciiOutput = app.asciiOutput
    /\ app'.zoomLevel = app.zoomLevel

C33_PresetKeepsDisplay == [][C33_Step]_vars

\* a preset was applied over typed custom characters, auto-fit switched off,
\* a zoomed view and a result on display
C33_Witness ==
  /\ env.edits > 0 /\ app.status.message = "Preset applied"
  /\ app.settings.preset = "photo"
  /\ app.settings.customChars = "@#" /\ ~app.settings.autoFit
  /\ app.zoomLevel = 150 /\ app.asciiOutput # << >>

-----------------------------------------------------------------------------
\* C34: a click on the minus button leaves a number in the input that is
\* not below the input's min (0 when it has none), and a click on the plus
\* button leaves a number that is not above the input's max, whatever the
\* input held before, an empty content included.
C34_Step ==
  LET v == ParseInt(app'.widthInput)
      min == ParseInt(app.widthMin)
      max == ParseInt(app.widthMax)
  IN /\ (env'.edits # env.edits) =>
          IsNum(v) /\ v.v >= (IF IsNum(min) THEN min.v ELSE 0)
     /\ (env'.extras # env.extras) =>
          IsNum(v) /\ (IsNum(max) => v.v <= max.v)

C34_ButtonsKeepBounds == [][C34_Step]_vars


=============================================================================
